---- MODULE Spec2Model ----
(***************************************************************************)
(* Page-quality validation scripts of the repository: each script's main() *)
(* acquires a browser driver, runs one validator against one page and      *)
(* writes its reports.  One behaviour of the model is one run of one       *)
(* script; the page, the network and the file system are the environment.  *)
(***************************************************************************)
EXTENDS Integers, Sequences, FiniteSets, TLC

VARIABLES
    script,        \* which script's main() runs
    pc,            \* position of the run
    driver,        \* "none" | "open" | "quit"
    page,          \* the page content the script looks at
    loaded,        \* "no" | "ok" | "failed": outcome of driver.get(url)
    propagated,    \* "none" | "validator" | "main": frame whose exception reached main's except
    error_logged,  \* main's except clause logged the exception
    ret,           \* <<>> or <<value returned by the validator>>
    files,         \* report files written so far
    summary,       \* <<>> or <<the summary record written>>
    image_data, pass_count, fail_count,          \* locals of check_image_alt_and_save
    links, link_data, cur, attempt, last,        \* locals of check_url_status_and_save and the probe in flight
    terminal,                                    \* url -> how its probe ended: last attempt, what get() gave
    idx,                                         \* number of loop iterations done (images, currencies)
    currency_options, results,                   \* locals of test_currency_filter
    dropdown_open, clicks,                       \* the selector control; the option clicks made
    seen,                                        \* per iteration, what the page showed to it
    interrupted,   \* "no" | "validator" | "main": frame in which a KeyboardInterrupt arrived
    quits          \* number of driver.quit() calls made

vars == <<script, pc, driver, page, loaded, propagated, error_logged, ret, files,
          summary, image_data, pass_count, fail_count, links, link_data, cur,
          attempt, last, terminal, idx, currency_options, results, dropdown_open,
          clicks, seen, interrupted, quits>>

imgVars  == <<image_data, pass_count, fail_count>>
urlVars  == <<links, link_data, cur, attempt, last, terminal>>
curVars  == <<currency_options, results, dropdown_open, clicks, seen>>

\* ---------------------------------------------------------------- bounds
MaxHeaders == 3
MaxImages  == 2
MaxAnchors == 3

SeqsUpTo(S, n) == UNION {[1..k -> S] : k \in 0..n}

Range(s) == {s[i] : i \in 1..Len(s)}

\* ---------------------------------------------------------------- main()
Scripts == {"html", "image", "url", "script", "h1", "currency"}

\* driver = init_driver()
init_driver ==
    /\ pc = "start"
    /\ driver' = "open"
    /\ pc' = "get"
    /\ UNCHANGED <<interrupted, quits, script, page, loaded, propagated, error_logged, ret, files, summary>>
    /\ UNCHANGED imgVars /\ UNCHANGED urlVars /\ UNCHANGED curVars /\ UNCHANGED idx

\* An exception leaves the frame `frame` and reaches the except clause of main().
Raise(frame) ==
    /\ propagated' = frame
    /\ pc' = "except"

\* except Exception as e: logging.error(...)
main_except ==
    /\ pc = "except"
    /\ error_logged' = TRUE
    /\ pc' = "finally"
    /\ UNCHANGED <<interrupted, quits, script, driver, page, loaded, propagated, ret, files, summary>>
    /\ UNCHANGED imgVars /\ UNCHANGED urlVars /\ UNCHANGED curVars /\ UNCHANGED idx

\* finally: driver.quit(); a pending KeyboardInterrupt then leaves main()
main_finally ==
    /\ pc = "finally"
    /\ driver' = "quit"
    /\ quits' = quits + 1
    /\ pc' = IF interrupted = "no" THEN "exited" ELSE "interrupt"
    /\ UNCHANGED <<interrupted, script, page, loaded, propagated, error_logged, ret, files, summary>>
    /\ UNCHANGED imgVars /\ UNCHANGED urlVars /\ UNCHANGED curVars /\ UNCHANGED idx

\* ---------------------------------------------- HTML_Tag_Sequence_Test.py
TagNames == {<<"h", d>> : d \in {"1", "2", "3", "4", "5", "6"}}

\* int(c) for the digit characters of a heading tag name
int(c) == CASE c = "1" -> 1 [] c = "2" -> 2 [] c = "3" -> 3
            [] c = "4" -> 4 [] c = "5" -> 5 [] c = "6" -> 6

\* str(n) for a heading level
str(n) == CASE n = 1 -> "1" [] n = 2 -> "2" [] n = 3 -> "3"
            [] n = 4 -> "4" [] n = 5 -> "5" [] n = 6 -> "6"

\* str(levels) of a Python list of ints, as its pieces: "[", items joined by ", ", "]"
RECURSIVE join(_)
join(l) == IF Len(l) = 0 THEN <<>>
           ELSE IF Len(l) = 1 THEN <<str(l[1])>>
           ELSE <<str(l[1]), ", ">> \o join(Tail(l))

str_list(l) == <<"[">> \o join(l) \o <<"]">>

\* levels = [int(header.tag_name[1]) for header in headers]
levels_of(headers) == [i \in 1..Len(headers) |-> int(headers[i][2])]

is_valid_sequence_strict(levels) ==
    \A i \in 1..(Len(levels) - 1) : levels[i] < levels[i + 1]

\* all(x <= y for x, y in zip(levels, levels[1:]))
is_valid_sequence(levels) ==
    \A i \in 1..(Len(levels) - 1) : levels[i] <= levels[i + 1]

\* the tuple check_html_sequence returns (header_info is the page's headers)
html_result(headers) ==
    LET levels == levels_of(headers) IN
    IF is_valid_sequence(levels)
    THEN [status |-> "Pass", comment |-> <<"HTML tag sequence is valid.">>,
          levels |-> levels]
    ELSE [status |-> "Fail",
          comment |-> <<"HTML tag sequence is broken. Found sequence: ">> \o str_list(levels),
          levels |-> levels]

\* driver.get(url) of check_html_sequence: not inside any try of the validator
check_html_sequence_get ==
    /\ script = "html" /\ pc = "get"
    /\ \/ /\ loaded' = "ok" /\ pc' = "body" /\ UNCHANGED propagated
       \/ /\ loaded' = "failed" /\ Raise("validator")
    /\ UNCHANGED <<interrupted, quits, script, driver, page, error_logged, ret, files, summary>>
    /\ UNCHANGED imgVars /\ UNCHANGED urlVars /\ UNCHANGED curVars /\ UNCHANGED idx

\* find_elements, the two comprehensions, the verdict; an element access may fault
check_html_sequence ==
    /\ script = "html" /\ pc = "body"
    /\ \/ /\ ret' = <<html_result(page)>> /\ pc' = "save" /\ UNCHANGED propagated
       \/ /\ Raise("validator") /\ UNCHANGED ret
    /\ UNCHANGED <<interrupted, quits, script, driver, page, loaded, error_logged, files, summary>>
    /\ UNCHANGED imgVars /\ UNCHANGED urlVars /\ UNCHANGED curVars /\ UNCHANGED idx

\* main(): the summary workbook, then the header workbook; either save may fail
main_html_save ==
    /\ script = "html" /\ pc = "save"
    /\ LET r == ret[1]
           s == [Result |-> r.status, Comments |-> r.comment, Sequence |-> str_list(r.levels)]
       IN \/ /\ summary' = <<s>> /\ files' = {"summary", "results"}
             /\ pc' = "finally" /\ UNCHANGED propagated
          \/ /\ summary' = <<s>> /\ files' = {"summary"} /\ Raise("main")
          \/ /\ Raise("main") /\ UNCHANGED <<summary, files>>
    /\ UNCHANGED <<interrupted, quits, script, driver, page, loaded, error_logged, ret>>
    /\ UNCHANGED imgVars /\ UNCHANGED urlVars /\ UNCHANGED curVars /\ UNCHANGED idx

\* ---------------------------------------------- Image_Alt_Attribute_Test.py
\* what get_attribute gives: None when the attribute is absent
None == "None"
Srcs == {None, "a.png"}
Alts == {None, "", " ", "Logo"}
Images == [src : Srcs, alt : Alts]

\* truthiness of an Optional[str]
truthy(s) == s # None /\ s # ""

image_status_present(img_alt) == IF img_alt # None THEN "Pass" ELSE "Fail"

\* status = "Pass" if img_alt else "Fail"
image_status(img_alt) == IF truthy(img_alt) THEN "Pass" ELSE "Fail"

\* one iteration body of `for index, img in enumerate(images)`
image_row(index, img) ==
    [ImageIndex |-> index + 1,
     ImageSource |-> IF truthy(img.src) THEN img.src ELSE "No Source",
     AltText |-> IF truthy(img.alt) THEN img.alt ELSE "None",
     Status |-> image_status(img.alt)]

check_image_alt_and_save_get ==
    /\ script = "image" /\ pc = "get"
    /\ \/ /\ loaded' = "ok" /\ pc' = "body" /\ UNCHANGED propagated
       \/ /\ loaded' = "failed" /\ Raise("validator")
    /\ UNCHANGED <<interrupted, quits, script, driver, page, error_logged, ret, files, summary>>
    /\ UNCHANGED imgVars /\ UNCHANGED urlVars /\ UNCHANGED curVars /\ UNCHANGED idx

\* one iteration of the loop over images; get_attribute may fault
check_image_alt_and_save_loop ==
    /\ script = "image" /\ pc = "body"
    /\ idx < Len(page)
    /\ LET row == image_row(idx, page[idx + 1])
       IN \/ /\ image_data' = Append(image_data, row)
             /\ pass_count' = IF row.Status = "Pass" THEN pass_count + 1 ELSE pass_count
             /\ fail_count' = IF row.Status = "Pass" THEN fail_count ELSE fail_count + 1
             /\ idx' = idx + 1
             /\ UNCHANGED <<pc, propagated>>
          \/ /\ Raise("validator") /\ UNCHANGED imgVars /\ UNCHANGED idx
    /\ UNCHANGED <<interrupted, quits, script, driver, page, loaded, error_logged, ret, files, summary>>
    /\ UNCHANGED urlVars /\ UNCHANGED curVars

\* after the loop: the detailed workbook, then the summary workbook
check_image_alt_and_save ==
    /\ script = "image" /\ pc = "body"
    /\ idx = Len(page)
    /\ LET s == [PassCount |-> pass_count, FailCount |-> fail_count, TotalImages |-> Len(page)]
       IN \/ /\ files' = {"results", "summary"} /\ summary' = <<s>>
             /\ ret' = <<None>> /\ pc' = "finally" /\ UNCHANGED propagated
          \/ /\ files' = {"results"} /\ Raise("validator") /\ UNCHANGED <<summary, ret>>
          \/ /\ Raise("validator") /\ UNCHANGED <<files, summary, ret>>
    /\ UNCHANGED <<interrupted, quits, script, driver, page, loaded, error_logged>>
    /\ UNCHANGED imgVars /\ UNCHANGED urlVars /\ UNCHANGED curVars /\ UNCHANGED idx

\* ---------------------------------------------- URL_Status_Code_Test.py
\* An href is its text cut in pieces, so that startswith() and the adapter
\* prefixes can be read off it: "" is <<>>, "https://b" is <<"http","s","://","b">>.
\* present = FALSE is an <a> without href (get_attribute gives None).
Anchors == {[present |-> FALSE, href |-> <<>>],
            [present |-> TRUE, href |-> <<>>],
            [present |-> TRUE, href |-> <<"mailto:", "x">>],
            [present |-> TRUE, href |-> <<"http", "://", "a">>],
            [present |-> TRUE, href |-> <<"http", "s", "://", "b">>]}

\* link.startswith("http")
startswith_http(h) == Len(h) >= 1 /\ h[1] = "http"

unique_links_unfiltered(anchors) ==
    {a.href : a \in {b \in Range(anchors) : b.present /\ b.href # <<>>}}

\* lines 80-81: the hrefs that are truthy, then the set of those starting with "http"
unique_links(anchors) ==
    LET hrefs == {a.href : a \in {b \in Range(anchors) : b.present /\ b.href # <<>>}}
    IN {h \in hrefs : h # <<>> /\ startswith_http(h)}

\* Retry(total=5, backoff_factor=1, status_forcelist=[500, 502, 503, 504])
RetryTotal == 5
status_forcelist == {"500", "502", "503", "504"}

\* what one attempt can end in: a response with a status code, or a failure
StatusCodes == {"200", "301", "403", "404", "500", "501", "502", "503", "504"}
Failures == {"timeout", "connerr"}
Outcomes == StatusCodes \cup Failures

is_https(link) == Len(link) >= 3 /\ link[2] = "s" /\ link[3] = "://"

\* session.mount('https://', HTTPAdapter(max_retries=retries)); requests.Session()
\* itself mounts HTTPAdapter() with max_retries 0 on 'http://' and leaves it there
adapter_retries(link) ==
    IF is_https(link)
    THEN [total |-> RetryTotal, forcelist |-> status_forcelist]
    ELSE [total |-> 0, forcelist |-> {}]

should_retry_once_more(link, o, n) ==
    LET r == adapter_retries(link) IN
    /\ n <= r.total + 1
    /\ o \in Failures \/ o \in r.forcelist

\* after attempt number n ended in o, the adapter of the link makes another
\* attempt: o is retryable under its Retry and the retry budget is not used up
should_retry(link, o, n) ==
    LET r == adapter_retries(link) IN
    /\ n <= r.total
    /\ o \in Failures \/ o \in r.forcelist

\* what session.get() gives the loop once the last attempt ended in o:
\* a response, or the requests exception the except clauses see
get_results(link, o) ==
    IF o \in StatusCodes
    THEN IF o \in adapter_retries(link).forcelist
         THEN {[kind |-> "RequestException", code |-> ""]}
         ELSE {[kind |-> "response", code |-> o]}
    ELSE IF o = "timeout"
         THEN IF is_https(link)
              THEN {[kind |-> "Timeout", code |-> ""], [kind |-> "RequestException", code |-> ""]}
              ELSE {[kind |-> "Timeout", code |-> ""]}
         ELSE {[kind |-> "RequestException", code |-> ""]}

link_row_timeout_pass(link, g) ==
    [URL |-> link,
     Status |-> IF g.kind = "response" /\ g.code # "404" THEN "pass"
                ELSE IF g.kind = "Timeout" THEN "Pass" ELSE "Fail",
     HTTPStatusCode |-> IF g.code # "" THEN g.code ELSE "N/A",
     ErrorMessage |-> IF g.kind = "response"
                      THEN (IF g.code = "404" THEN "404 Not Found" ELSE "None")
                      ELSE IF g.kind = "Timeout" THEN "Timeout" ELSE "Error"]

\* lines 97-127: the try/except of one iteration and the row it appends
link_row(link, g) ==
    [URL |-> link,
     Status |-> IF g.kind = "response" /\ g.code # "404" THEN "pass" ELSE "Fail",
     HTTPStatusCode |-> IF g.code # "" THEN g.code ELSE "N/A",
     ErrorMessage |-> IF g.kind = "response"
                      THEN (IF g.code = "404" THEN "404 Not Found" ELSE "None")
                      ELSE IF g.kind = "Timeout" THEN "Timeout" ELSE "Error"]

any_404(data) == \E i \in 1..Len(data) : data[i].HTTPStatusCode = "404"

normalize_no_error(data) ==
    IF ~ any_404(data)
    THEN [i \in 1..Len(data) |->
            IF data[i].ErrorMessage = "None" THEN [data[i] EXCEPT !.Status = "Pass"]
            ELSE data[i]]
    ELSE data

\* lines 131-134
normalize(data) ==
    IF ~ any_404(data)
    THEN [i \in 1..Len(data) |-> [data[i] EXCEPT !.Status = "Pass"]]
    ELSE data

\* line 139
overall_status(data) ==
    IF \A i \in 1..Len(data) : data[i].Status = "Pass" THEN "Pass" ELSE "Fail"

comments_not_pass(data) ==
    IF overall_status(data) = "Pass"
    THEN [text |-> "All URLs passed successfully.", failed_count |-> 0]
    ELSE [text |-> " URL(s) failed.",
          failed_count |-> Cardinality({i \in 1..Len(data) : data[i].Status # "Pass"})]

\* lines 143-147
comments(data) ==
    IF overall_status(data) = "Pass"
    THEN [text |-> "All URLs passed successfully.", failed_count |-> 0]
    ELSE [text |-> " URL(s) failed.",
          failed_count |-> Cardinality({i \in 1..Len(data) : data[i].Status = "Fail"})]

check_url_status_and_save_get ==
    /\ script = "url" /\ pc = "get"
    /\ \/ /\ loaded' = "ok" /\ pc' = "collect" /\ UNCHANGED propagated
       \/ /\ loaded' = "failed" /\ Raise("validator")
    /\ UNCHANGED <<interrupted, quits, script, driver, page, error_logged, ret, files, summary>>
    /\ UNCHANGED imgVars /\ UNCHANGED urlVars /\ UNCHANGED curVars /\ UNCHANGED idx

\* lines 80-94: collect the links; find_elements / get_attribute may fault
check_url_status_and_save_collect ==
    /\ script = "url" /\ pc = "collect"
    /\ \/ /\ links' = unique_links(page) /\ pc' = "loop" /\ UNCHANGED propagated
       \/ /\ Raise("validator") /\ UNCHANGED links
    /\ UNCHANGED <<interrupted, quits, script, driver, page, loaded, error_logged, ret, files, summary>>
    /\ UNCHANGED imgVars /\ UNCHANGED <<link_data, cur, attempt, last, terminal>>
    /\ UNCHANGED curVars /\ UNCHANGED idx

\* `for link in links`: the next link of the list(set(...)), in whatever order
check_url_status_and_save_next ==
    /\ script = "url" /\ pc = "loop"
    /\ \E link \in links :
         /\ cur' = link
         /\ links' = links \ {link}
    /\ attempt' = 0
    /\ last' = None
    /\ pc' = "probe"
    /\ UNCHANGED <<interrupted, quits, script, driver, page, loaded, propagated, error_logged, ret, files, summary>>
    /\ UNCHANGED imgVars /\ UNCHANGED <<link_data, terminal>>
    /\ UNCHANGED curVars /\ UNCHANGED idx

\* one HTTP attempt of session.get(link, timeout=5, verify=False); after the
\* last one the iteration classifies the link and appends its row
session_get_attempt ==
    /\ script = "url" /\ pc = "probe"
    /\ \E o \in Outcomes :
         /\ attempt' = attempt + 1
         /\ last' = o
         /\ IF should_retry(cur, o, attempt + 1)
            THEN UNCHANGED <<pc, cur, link_data, terminal>>
            ELSE /\ \E g \in get_results(cur, o) :
                      /\ link_data' = Append(link_data, link_row(cur, g))
                      /\ terminal' = terminal @@ (cur :> [last |-> o, kind |-> g.kind])
                 /\ pc' = "loop"
                 /\ UNCHANGED cur
    /\ UNCHANGED <<interrupted, quits, script, driver, page, loaded, propagated, error_logged, ret, files, summary>>
    /\ UNCHANGED imgVars /\ UNCHANGED links
    /\ UNCHANGED curVars /\ UNCHANGED idx

\* lines 131-134, once the loop is over (no probe is in flight any more)
check_url_status_and_save_normalize ==
    /\ script = "url" /\ pc = "loop" /\ links = {}
    /\ link_data' = normalize(link_data)
    /\ pc' = "report"
    /\ cur' = None /\ attempt' = 0 /\ last' = None
    /\ UNCHANGED <<interrupted, quits, script, driver, page, loaded, propagated, error_logged, ret, files, summary>>
    /\ UNCHANGED imgVars /\ UNCHANGED <<links, terminal>>
    /\ UNCHANGED curVars /\ UNCHANGED idx

\* lines 136-157: the detailed workbook, the overall status, the summary workbook
check_url_status_and_save ==
    /\ script = "url" /\ pc = "report"
    /\ LET s == [status |-> overall_status(link_data), comments |-> comments(link_data)]
       IN \/ /\ files' = {"results", "summary"} /\ summary' = <<s>>
             /\ ret' = <<None>> /\ pc' = "finally" /\ UNCHANGED propagated
          \/ /\ files' = {"results"} /\ Raise("validator") /\ UNCHANGED <<summary, ret>>
          \/ /\ Raise("validator") /\ UNCHANGED <<files, summary, ret>>
    /\ UNCHANGED <<interrupted, quits, script, driver, page, loaded, error_logged>>
    /\ UNCHANGED imgVars /\ UNCHANGED urlVars /\ UNCHANGED curVars /\ UNCHANGED idx

\* ---------------------------------------------- Scrape_Data_from_Script_Tag.py
\* the page: the innerHTML of its <script> elements, in document order
ScriptPages == {<<>>, <<"">>, <<"var a;">>, <<"var a;", "">>}

\* driver.get(url): line 98, before the try of scrape_script_data
scrape_script_data_get ==
    /\ script = "script" /\ pc = "get"
    /\ \/ /\ loaded' = "ok" /\ pc' = "body" /\ UNCHANGED propagated
       \/ /\ loaded' = "failed" /\ Raise("validator")
    /\ UNCHANGED <<interrupted, quits, script, driver, page, error_logged, ret, files, summary>>
    /\ UNCHANGED imgVars /\ UNCHANGED urlVars /\ UNCHANGED curVars /\ UNCHANGED idx

\* lines 100-115: find_element raises when there is no <script>; any fault is caught
scrape_script_data ==
    /\ script = "script" /\ pc = "body"
    /\ \/ /\ Len(page) >= 1
          /\ ret' = <<[status |-> "Pass", data |-> "data"]>>
       \/ ret' = <<[status |-> "Fail", data |-> "Error"]>>
    /\ pc' = "save"
    /\ UNCHANGED <<interrupted, quits, script, driver, page, loaded, propagated, error_logged, files, summary>>
    /\ UNCHANGED imgVars /\ UNCHANGED urlVars /\ UNCHANGED curVars /\ UNCHANGED idx

\* main(): the one workbook of the script, or a failing save
main_script_save ==
    /\ script = "script" /\ pc = "save"
    /\ \/ /\ summary' = <<[Result |-> ret[1].status, Comments |-> ret[1].data]>>
          /\ files' = {"results"}
          /\ pc' = "finally" /\ UNCHANGED propagated
       \/ /\ Raise("main") /\ UNCHANGED <<summary, files>>
    /\ UNCHANGED <<interrupted, quits, script, driver, page, loaded, error_logged, ret>>
    /\ UNCHANGED imgVars /\ UNCHANGED urlVars /\ UNCHANGED curVars /\ UNCHANGED idx

\* ---------------------------------------------- H1_Tag_Existence_Test.py
\* the page: the text of its <h1> elements
H1Texts == {"", " ", "Title", " Title "}
MaxH1 == 2

\* str.strip() on the texts of the model
strip(t) == CASE t = " " -> "" [] t = " Title " -> "Title" [] OTHER -> t

RECURSIVE stripped_texts(_)
\* [h1.text.strip() for h1 in h1_tags if h1.text.strip()]
stripped_texts(tags) ==
    IF Len(tags) = 0 THEN <<>>
    ELSE IF strip(Head(tags)) # "" THEN <<strip(Head(tags))>> \o stripped_texts(Tail(tags))
    ELSE stripped_texts(Tail(tags))

\* lines 80-98: everything, driver.get included, is inside the try
check_all_h1_tags ==
    /\ script = "h1" /\ pc = "get"
    /\ \/ /\ loaded' = "ok"
          /\ ret' = <<IF Len(page) > 0
                      THEN [status |-> "Pass", comment |-> "H1 tags found.",
                            h1_texts |-> stripped_texts(page)]
                      ELSE [status |-> "Fail", comment |-> "No H1 tags found.",
                            h1_texts |-> <<>>]>>
       \/ /\ loaded' = "failed"
          /\ \E c \in {"Page load timeout.", "Error"} :
               ret' = <<[status |-> "Fail", comment |-> c, h1_texts |-> <<>>]>>
       \/ /\ loaded' = "ok"
          /\ \E c \in {"Page load timeout.", "Error"} :
               ret' = <<[status |-> "Fail", comment |-> c, h1_texts |-> <<>>]>>
    /\ pc' = "save"
    /\ UNCHANGED <<interrupted, quits, script, driver, page, propagated, error_logged, files, summary>>
    /\ UNCHANGED imgVars /\ UNCHANGED urlVars /\ UNCHANGED curVars /\ UNCHANGED idx

\* main(): the result workbook (lines 116-125), then the tags/summary workbook
main_h1_save ==
    /\ script = "h1" /\ pc = "save"
    /\ LET r == ret[1]
           s == [Result |-> r.status, Comments |-> r.comment,
                 TotalH1TagsFound |-> Len(r.h1_texts),
                 H1Tags |-> IF r.h1_texts # <<>> THEN r.h1_texts ELSE <<"No H1 tags found">>]
       IN \/ /\ summary' = <<s>> /\ files' = {"results", "summary"}
             /\ pc' = "finally" /\ UNCHANGED propagated
          \/ /\ summary' = <<s>> /\ files' = {"results"} /\ Raise("main")
          \/ /\ Raise("main") /\ UNCHANGED <<summary, files>>
    /\ UNCHANGED <<interrupted, quits, script, driver, page, loaded, error_logged, ret>>
    /\ UNCHANGED imgVars /\ UNCHANGED urlVars /\ UNCHANGED curVars /\ UNCHANGED idx

\* ---------------------------------------------- Currency_Filtering_Test.py
\* the page: the <li> options of the currency selector, each with its
\* data-currency-country and the text of its ".option > p", already split at " "
Countries == {"US", "SE"}
OptionTexts == {<<"$", "USD">>, <<"kr", "SEK">>}
OptionElements == [country : Countries, text : OptionTexts]
MaxOptions == 2

\* the text of a price tile, in pieces
TileTexts == {<<"$", "100">>, <<"kr", "100">>}
MaxTiles == 2

\* currency_element.text.split(" ")[0].strip()
currency_symbol(text) == text[1]

\* lines 108-114
parse_options(options) ==
    [i \in 1..Len(options) |->
        [country |-> options[i].country, symbol |-> currency_symbol(options[i].text)]]

\* currency["symbol"] in tile.text
symbol_in(symbol, tile) == symbol = "" \/ symbol \in Range(tile)

\* next((opt for opt in options if opt.get_attribute(...) == country), None), as
\* the index of the element found (0 for None); live[j] is what the j-th element
\* of `options` answers now
first_match(live, country) ==
    IF \E j \in 1..Len(live) : live[j] = country
    THEN CHOOSE j \in 1..Len(live) :
            /\ live[j] = country
            /\ \A k \in 1..(j - 1) : live[k] # country
    ELSE 0

result_row(currency, status, reason) ==
    [CurrencyName |-> currency.country, CurrencySymbol |-> currency.symbol,
     Status |-> status, Reason |-> reason]

all_row(reason) ==
    [CurrencyName |-> "All", CurrencySymbol |-> "N/A", Status |-> "Fail", Reason |-> reason]

tiles_row_any(currency, tiles) ==
    IF Len(tiles) = 0
    THEN result_row(currency, "Fail", "No property tiles found")
    ELSE IF ~ (\E t \in 1..Len(tiles) : symbol_in(currency.symbol, tiles[t]))
    THEN result_row(currency, "Fail", "Currency symbol not found in property tiles")
    ELSE result_row(currency, "Pass", "Validation successful")

\* lines 144-157: the verdict on the tiles shown after the option was clicked
tiles_row(currency, tiles) ==
    IF Len(tiles) = 0
    THEN result_row(currency, "Fail", "No property tiles found")
    ELSE IF ~ (\A t \in 1..Len(tiles) : symbol_in(currency.symbol, tiles[t]))
    THEN result_row(currency, "Fail", "Currency symbol not found in property tiles")
    ELSE result_row(currency, "Pass", "Validation successful")

\* lines 83-89: driver.get and the wait for <body>, inside the outer try
test_currency_filter_get ==
    /\ script = "currency" /\ pc = "get"
    /\ \/ /\ loaded' = "ok" /\ pc' = "discover" /\ UNCHANGED <<ret, results>>
       \/ /\ loaded' = "failed" /\ ret' = <<<<all_row("Exception")>>>> /\ pc' = "save"
          /\ UNCHANGED results
    /\ UNCHANGED <<interrupted, quits, script, driver, page, propagated, error_logged, files, summary>>
    /\ UNCHANGED imgVars /\ UNCHANGED urlVars /\ UNCHANGED idx
    /\ UNCHANGED <<currency_options, dropdown_open, clicks, seen>>

\* lines 91-114: scroll, open the selector, read the options; a fault anywhere
\* (before or after the click on the selector) goes to the outer except
test_currency_filter_discover ==
    /\ script = "currency" /\ pc = "discover"
    /\ \/ /\ dropdown_open' = ~ dropdown_open
          /\ currency_options' = parse_options(page)
          /\ UNCHANGED ret /\ pc' = "loop"
       \/ /\ \E clicked \in BOOLEAN :
               dropdown_open' = IF clicked THEN ~ dropdown_open ELSE dropdown_open
          /\ ret' = <<<<all_row("Exception")>>>> /\ pc' = "save"
          /\ UNCHANGED currency_options
    /\ UNCHANGED <<interrupted, quits, script, driver, page, loaded, propagated, error_logged, files, summary>>
    /\ UNCHANGED imgVars /\ UNCHANGED urlVars /\ UNCHANGED idx
    /\ UNCHANGED <<results, clicks, seen>>

\* lines 116-118: `if not currency_options`
test_currency_filter_none ==
    /\ script = "currency" /\ pc = "loop"
    /\ Len(currency_options) = 0
    /\ ret' = <<<<all_row("No currency options found")>>>>
    /\ pc' = "save"
    /\ UNCHANGED <<interrupted, quits, script, driver, page, loaded, propagated, error_logged, files, summary>>
    /\ UNCHANGED imgVars /\ UNCHANGED urlVars /\ UNCHANGED curVars /\ UNCHANGED idx

\* what one iteration met: a fault, or else whether the option was found,
\* whether tiles were rendered and whether every tile carried the symbol
Seen(fault, found, tiles, symbol) ==
    [fault |-> fault, found |-> found, rendered |-> Len(tiles) > 0,
     all_match |-> \A t \in 1..Len(tiles) : symbol \in Range(tiles[t])]

\* lines 121-162: one iteration of `for currency in currency_options`
test_currency_filter_loop ==
    /\ script = "currency" /\ pc = "loop"
    /\ idx < Len(currency_options)
    /\ LET currency == currency_options[idx + 1] IN
       \/ \* the wait for the selector times out: inner except
          /\ results' = Append(results, result_row(currency, "Fail", "Exception"))
          /\ seen' = Append(seen, Seen(TRUE, FALSE, <<>>, currency.symbol))
          /\ UNCHANGED <<dropdown_open, clicks>>
       \/ \* selector clicked, then a fault while looking for the option or clicking it
          /\ results' = Append(results, result_row(currency, "Fail", "Exception"))
          /\ seen' = Append(seen, Seen(TRUE, FALSE, <<>>, currency.symbol))
          /\ dropdown_open' = ~ dropdown_open
          /\ UNCHANGED clicks
       \/ \* selector clicked, the option looked up among the elements as they are now
          \E live \in [1..Len(page) -> Countries \cup {None}] :
            LET option == first_match(live, currency.country) IN
            IF option = 0
            THEN /\ results' = Append(results,
                        result_row(currency, "Fail", "Currency option not found in dropdown"))
                 /\ seen' = Append(seen, Seen(FALSE, FALSE, <<>>, currency.symbol))
                 /\ dropdown_open' = ~ dropdown_open
                 /\ UNCHANGED clicks
            ELSE /\ clicks' = Append(clicks, [iteration |-> idx + 1, option |-> option,
                                              open |-> ~ dropdown_open])
                 /\ dropdown_open' = FALSE
                 /\ \/ \E tiles \in SeqsUpTo(TileTexts, MaxTiles) :
                          /\ results' = Append(results, tiles_row(currency, tiles))
                          /\ seen' = Append(seen, Seen(FALSE, TRUE, tiles, currency.symbol))
                    \/ /\ results' = Append(results, result_row(currency, "Fail", "Exception"))
                       /\ seen' = Append(seen, Seen(TRUE, TRUE, <<>>, currency.symbol))
    /\ idx' = idx + 1
    /\ UNCHANGED <<interrupted, quits, script, pc, driver, page, loaded, propagated, error_logged, ret, files, summary>>
    /\ UNCHANGED imgVars /\ UNCHANGED urlVars
    /\ UNCHANGED currency_options

test_currency_filter_early ==
    /\ script = "currency" /\ pc = "loop"
    /\ Len(currency_options) > 0 /\ idx >= 1
    /\ ret' = <<results>>
    /\ pc' = "save"
    /\ UNCHANGED <<interrupted, quits, script, driver, page, loaded, propagated, error_logged, files, summary>>
    /\ UNCHANGED imgVars /\ UNCHANGED urlVars /\ UNCHANGED curVars /\ UNCHANGED idx

\* line 164: return results, after the loop
test_currency_filter ==
    /\ script = "currency" /\ pc = "loop"
    /\ Len(currency_options) > 0 /\ idx = Len(currency_options)
    /\ ret' = <<results>>
    /\ pc' = "save"
    /\ UNCHANGED <<interrupted, quits, script, driver, page, loaded, propagated, error_logged, files, summary>>
    /\ UNCHANGED imgVars /\ UNCHANGED urlVars /\ UNCHANGED curVars /\ UNCHANGED idx

count(rows, status) == Cardinality({i \in 1..Len(rows) : rows[i].Status = status})

\* main(): lines 187-211, the results workbook, then the summary workbook
main_currency_save ==
    /\ script = "currency" /\ pc = "save"
    /\ LET r == ret[1]
           s == [TotalCurrenciesTested |-> Len(r), PassCount |-> count(r, "Pass"),
                 FailCount |-> count(r, "Fail")]
       IN \/ /\ summary' = <<s>> /\ files' = {"results", "summary"}
             /\ pc' = "finally" /\ UNCHANGED propagated
          \/ /\ files' = {"results"} /\ Raise("main") /\ UNCHANGED summary
          \/ /\ Raise("main") /\ UNCHANGED <<summary, files>>
    /\ UNCHANGED <<interrupted, quits, script, driver, page, loaded, error_logged, ret>>
    /\ UNCHANGED imgVars /\ UNCHANGED urlVars /\ UNCHANGED curVars /\ UNCHANGED idx

\* ---------------------------------------------------------------- runs
PageOf(s) ==
    CASE s = "html" -> SeqsUpTo(TagNames, MaxHeaders)
      [] s = "image" -> SeqsUpTo(Images, MaxImages)
      [] s = "url" -> SeqsUpTo(Anchors, MaxAnchors)
      [] s = "script" -> ScriptPages
      [] s = "h1" -> SeqsUpTo(H1Texts, MaxH1)
      [] s = "currency" -> SeqsUpTo(OptionElements, MaxOptions)
      [] OTHER -> {<<>>}

\* ------------------------------------------------------ interruption
\* positions inside main()'s try statement, and those inside the validator's frame
TryBody == {"get", "body", "collect", "loop", "probe", "report", "discover", "save", "except"}
InValidator == TryBody \ {"save", "except"}

KeyboardInterrupt_skips_finally ==
    /\ pc \in TryBody
    /\ interrupted' = IF pc \in InValidator
                      THEN "validator" ELSE "main"
    /\ pc' = "interrupt"
    /\ ret' = <<>>
    /\ image_data' = <<>> /\ pass_count' = 0 /\ fail_count' = 0
    /\ links' = {} /\ link_data' = <<>> /\ cur' = None /\ attempt' = 0 /\ last' = None
    /\ terminal' = [u \in {} |-> None]
    /\ idx' = 0
    /\ currency_options' = <<>> /\ results' = <<>> /\ clicks' = <<>> /\ seen' = <<>>
    /\ UNCHANGED <<quits, script, driver, page, loaded, propagated, error_logged, files,
                   summary, dropdown_open>>

\* Ctrl-C while main()'s try statement runs: KeyboardInterrupt is not an
\* Exception, so no `except Exception` clause (the validators', the loops',
\* main's) catches it; the frames under main() are unwound, their locals and
\* what they had gathered are gone, and main()'s finally clause runs
KeyboardInterrupt ==
    /\ pc \in TryBody
    /\ interrupted' = IF pc \in InValidator THEN "validator" ELSE "main"
    /\ pc' = "finally"
    /\ ret' = <<>>
    /\ image_data' = <<>> /\ pass_count' = 0 /\ fail_count' = 0
    /\ links' = {} /\ link_data' = <<>> /\ cur' = None /\ attempt' = 0 /\ last' = None
    /\ terminal' = [u \in {} |-> None]
    /\ idx' = 0
    /\ currency_options' = <<>> /\ results' = <<>> /\ clicks' = <<>> /\ seen' = <<>>
    /\ UNCHANGED <<quits, script, driver, page, loaded, propagated, error_logged, files,
                   summary, dropdown_open>>

\* if __name__ == "__main__": except KeyboardInterrupt: logging.info(...)
main_KeyboardInterrupt ==
    /\ pc = "interrupt"
    /\ pc' = "exited"
    /\ UNCHANGED <<interrupted, quits, script, driver, page, loaded, propagated, error_logged,
                   ret, files, summary>>
    /\ UNCHANGED imgVars /\ UNCHANGED urlVars /\ UNCHANGED curVars /\ UNCHANGED idx

Init ==
    /\ script \in Scripts
    /\ page \in PageOf(script)
    /\ pc = "start"
    /\ driver = "none"
    /\ loaded = "no"
    /\ propagated = "none"
    /\ error_logged = FALSE
    /\ ret = <<>>
    /\ files = {}
    /\ summary = <<>>
    /\ image_data = <<>> /\ pass_count = 0 /\ fail_count = 0
    /\ links = {} /\ link_data = <<>> /\ cur = None /\ attempt = 0 /\ last = None
    /\ terminal = [u \in {} |-> None]
    /\ idx = 0
    /\ currency_options = <<>> /\ results = <<>> /\ dropdown_open = FALSE /\ clicks = <<>>
    /\ seen = <<>>
    /\ interrupted = "no" /\ quits = 0

Next ==
    \/ init_driver
    \/ main_except
    \/ main_finally
    \/ KeyboardInterrupt
    \/ main_KeyboardInterrupt
    \/ check_html_sequence_get
    \/ check_html_sequence
    \/ main_html_save
    \/ check_image_alt_and_save_get
    \/ check_image_alt_and_save_loop
    \/ check_image_alt_and_save
    \/ check_url_status_and_save_get
    \/ check_url_status_and_save_collect
    \/ check_url_status_and_save_next
    \/ session_get_attempt
    \/ check_url_status_and_save_normalize
    \/ check_url_status_and_save
    \/ scrape_script_data_get
    \/ scrape_script_data
    \/ main_script_save
    \/ check_all_h1_tags
    \/ main_h1_save
    \/ test_currency_filter_get
    \/ test_currency_filter_discover
    \/ test_currency_filter_none
    \/ test_currency_filter_loop
    \/ test_currency_filter
    \/ main_currency_save

Spec == Init /\ [][Next]_vars

\* ================================================================ claims
records(data) == {data[i] : i \in 1..Len(data)}

\* ---------------------------------------------------------------- C1
\* C1: the normalization runs only once every unique URL has its record, and
\* when no record carries HTTP status code 404 every record's Status is
\* "Pass" after it and the overall status written is "Pass", whatever
\* timeouts or request errors the loop recorded.
C1_NormalizationForcesPass ==
    script = "url" =>
      /\ pc = "report" =>
           /\ {r.URL : r \in records(link_data)} = unique_links(page)
           /\ Len(link_data) = Cardinality(unique_links(page))
      /\ (pc = "report" \/ summary # <<>>) /\ ~ (\E r \in records(link_data) : r.HTTPStatusCode = "404")
           => /\ \A r \in records(link_data) : r.Status = "Pass"
              /\ summary # <<>> => summary[1].status = "Pass"

C1_Witness ==
    /\ script = "url" /\ summary # <<>> /\ summary[1].status = "Pass"
    /\ \E r \in records(link_data) : r.ErrorMessage = "Timeout" /\ r.Status = "Pass"
    /\ \E r \in records(link_data) : r.ErrorMessage = "Error" /\ r.Status = "Pass"

\* ---------------------------------------------------------------- C2
EndOfLoop == script = "url" /\ pc = "loop" /\ links = {}

\* C2: when the classification loop is over, a URL's row is Fail exactly when
\* its probe gave a response with status 404 or ended in a timeout or
\* request error (any other status that came back is not Fail); and when
\* some URL resolved to 404 the normalization leaves every row as it is
\* (the step that follows the loop in a run that is not interrupted there).
C2_Classification ==
    /\ [](EndOfLoop =>
            \A r \in records(link_data) :
               LET t == terminal[r.URL] IN
               /\ r.Status = "Fail" <=>
                     \/ t.kind = "response" /\ t.last = "404"
                     \/ t.kind \in {"Timeout", "RequestException"}
               /\ t.kind = "response" => r.HTTPStatusCode = t.last)
    /\ [][(EndOfLoop /\ \E u \in DOMAIN terminal :
                           terminal[u].kind = "response" /\ terminal[u].last = "404")
              /\ interrupted' = "no"
            => link_data' = link_data]_vars

C2_Witness ==
    /\ script = "url" /\ pc = "report"
    /\ \E r \in records(link_data) : r.HTTPStatusCode = "404" /\ r.Status = "Fail"
    /\ \E r \in records(link_data) : r.ErrorMessage = "Error" /\ r.Status = "Fail"

\* ---------------------------------------------------------------- C3
\* C3 as stated: no probe makes more than 5 attempts, the first one included.
C3_AtMostFiveAttempts == attempt <= 5

\* C3, amended: no probe makes more than 6 attempts, the first one plus the
\* Retry(total=5) retries.
C3_AtMostTotalPlusOne == attempt <= RetryTotal + 1

C3_Witness == script = "url" /\ attempt = RetryTotal + 1 /\ last = "503"

\* ---------------------------------------------------------------- C4
\* C4: for every collected URL, http:// or https://, an attempt is followed by
\* another one exactly when it ended in 500, 502, 503, 504, a timeout or a
\* connection error and attempts remain; never after a 200, 301 or 404.
C4_RetryExactlyOnTransient ==
    [][(script = "url" /\ pc = "probe" /\ attempt' = attempt + 1) =>
          ((pc' = "probe") <=>
              /\ last' \in {"500", "502", "503", "504", "timeout", "connerr"}
              /\ attempt' <= RetryTotal)]_vars


\* ---------------------------------------------------------------- C5
\* the pieces of the literal list of levels: "[", the levels separated by ", ", "]"
IsLiteralOf(lit, L) ==
    /\ Len(lit) = 2 * Len(L) + 1
    /\ lit[1] = "[" /\ lit[Len(lit)] = "]"
    /\ \A i \in 1..Len(L) : lit[2 * i] = str(L[i])
    /\ \A i \in 1..(Len(L) - 1) : lit[2 * i + 1] = ", "

C6_OneRecordPerImage ==
    (script = "image" /\ ((pc = "body" /\ idx = Len(page)) \/ summary # <<>>)) =>
       /\ Len(image_data) = Len(page)
       /\ \A i \in 1..Len(page) :
             /\ image_data[i].ImageIndex = i
             /\ image_data[i].ImageSource = (IF page[i].src \in {None, ""} THEN "No Source"
                                             ELSE page[i].src)
             /\ image_data[i].Status = "Pass" <=> page[i].alt \notin {None, ""}
             /\ image_data[i].Status \in {"Pass", "Fail"}
       /\ pass_count + fail_count = Len(page)
       /\ summary # <<>> =>
             /\ summary[1].PassCount + summary[1].FailCount = Len(page)
             /\ summary[1].TotalImages = Len(page)

C6_Witness ==
    /\ script = "image" /\ summary # <<>> /\ Len(page) = 2
    /\ page[1].alt = "" /\ image_data[1].Status = "Fail"
    /\ page[2].alt = "Logo" /\ image_data[2].Status = "Pass"
    /\ summary[1].PassCount = 1 /\ summary[1].FailCount = 1

\* ---------------------------------------------------------------- C7
\* C7: once the options are read, test_currency_filter returns, for zero
\* options, the single record "All" / Fail / no options found, and for N >= 1
\* options exactly N records, the i-th one for the i-th option read, whatever
\* branch each iteration took; no exception leaves the loop, only the return
\* (a KeyboardInterrupt is not an exception of the loop's iterations).
C7_OneResultPerOption ==
    [][(script = "currency" /\ pc = "loop" /\ interrupted' = "no") =>
          /\ pc' \in {"loop", "save"}
          /\ pc' = "save" =>
               LET N == Len(currency_options)
                   out == ret'[1]
               IN IF N = 0
                  THEN out = <<[CurrencyName |-> "All", CurrencySymbol |-> "N/A",
                                Status |-> "Fail", Reason |-> "No currency options found"]>>
                  ELSE /\ Len(out) = N
                       /\ \A i \in 1..N :
                            /\ out[i].CurrencyName = page[i].country
                            /\ out[i].CurrencySymbol = page[i].text[1]
                            /\ out[i].Status \in {"Pass", "Fail"}]_vars

C7_Witness ==
    /\ script = "currency" /\ ret # <<>> /\ Len(currency_options) = 2
    /\ Len(ret[1]) = 2
    /\ ret[1][1].Reason = "Exception"
    /\ ret[1][2].Reason = "Currency option not found in dropdown"

C7_WitnessNone ==
    /\ script = "currency" /\ ret # <<>> /\ loaded = "ok" /\ currency_options = <<>>
    /\ ret[1][1].Reason = "No currency options found"

\* ---------------------------------------------------------------- C8
\* C8: no validator raises to its caller: a fault inside it comes back as a
\* returned outcome.
C8_NoValidatorRaises == propagated # "validator"

\* ---------------------------------------------------------------- C9
\* C9: a run whose page load succeeded has written its summary report by the
\* time it ends, also when the validator faulted after the load (runs that
\* were not interrupted).
C9_SummaryAfterLoad ==
    (pc = "exited" /\ loaded = "ok" /\ propagated # "main" /\ interrupted = "no")
       => summary # <<>>

\* ---------------------------------------------------------------- C10
summary_is_fail ==
    /\ summary # <<>>
    /\ CASE script \in {"html", "script", "h1"} -> summary[1].Result = "Fail"
         [] script = "url" -> summary[1].status = "Fail"
         [] script \in {"image", "currency"} -> summary[1].FailCount > 0

\* C10: a run whose page load failed still writes a summary, and that summary
\* shows the validator failed (runs that were not interrupted).
C10_SummaryOnLoadFailure ==
    (pc = "exited" /\ loaded = "failed" /\ propagated # "main" /\ interrupted = "no")
       => summary_is_fail

\* ---------------------------------------------------------------- C11
\* C11: in every final state of the link checker each row's Status is one of
\* the two values "Pass" and "Fail", also when one URL resolved to 404 and
\* another to some other status.
C11_TwoValuedStatus ==
    (script = "url" /\ (pc = "report" \/ summary # <<>>)) =>
       \A r \in records(link_data) : r.Status \in {"Pass", "Fail"}

\* ---------------------------------------------------------------- C12
\* C12: the overall status written is Pass exactly when every row is Pass,
\* is what line 139 gives again on the same rows, is Fail exactly when some
\* URL resolved to 404, and when it is Fail the failed count written is the
\* number of rows whose Status is Fail.
C12_OverallStatus ==
    (script = "url" /\ summary # <<>>) =>
       LET s == summary[1] IN
       /\ s.status \in {"Pass", "Fail"}
       /\ s.status = "Pass" <=> \A i \in 1..Len(link_data) : link_data[i].Status = "Pass"
       /\ s.status = overall_status(link_data)
       /\ s.status = "Fail" <=>
             \E u \in DOMAIN terminal :
                terminal[u].kind = "response" /\ terminal[u].last = "404"
       /\ s.status = "Fail" =>
             s.comments.failed_count =
                Cardinality({i \in 1..Len(link_data) : link_data[i].Status = "Fail"})

C12_Witness ==
    /\ script = "url" /\ summary # <<>> /\ summary[1].status = "Fail"
    /\ summary[1].comments.failed_count = 1
    /\ \E r \in records(link_data) : r.HTTPStatusCode = "404"
    /\ \E r \in records(link_data) : r.HTTPStatusCode = "200"

\* ---------------------------------------------------------------- C13
\* C13: once main() holds the driver, driver.quit() is called exactly once by
\* the time the run ends, whether the try body completed, an exception of the
\* validator or of the report writing reached main(), or a KeyboardInterrupt
\* arrived; and nothing uses the driver after the call: the driver is open at
\* every position inside main() and quit only on the way out.
C13_DriverReleasedOnce ==
    /\ quits <= 1
    /\ pc = "exited" => (quits = 1 /\ driver = "quit")
    /\ pc \in TryBody \cup {"finally"} => (quits = 0 /\ driver = "open")
    /\ driver = "quit" => pc \in {"interrupt", "exited"}

C13_Witness ==
    /\ pc = "exited" /\ interrupted = "validator" /\ quits = 1 /\ driver = "quit"

C13_WitnessException ==
    /\ pc = "exited" /\ propagated = "main" /\ interrupted = "no" /\ quits = 1

\* ---------------------------------------------------------------- C14
\* C14: a run interrupted while its validator is in progress still ends with
\* a summary written.
C14_SummaryOnInterrupt ==
    (pc = "exited" /\ interrupted = "validator") => summary # <<>>

\* ---------------------------------------------------------------- C15
\* the distinct href values of the page that are not empty and start with "http"
HttpHrefs ==
    {page[i].href : i \in {j \in 1..Len(page) :
        page[j].present /\ Len(page[j].href) > 0 /\ page[j].href[1] = "http"}}

\* C15: the link checker makes rows for exactly the distinct non-empty hrefs
\* that start with "http": one row each, no URL in two rows, no row for a
\* URL that is not on the page, no row with an empty URL.
C15_ExactlyTheHttpLinks ==
    script = "url" =>
       /\ \A i \in 1..Len(link_data) :
             /\ link_data[i].URL \in HttpHrefs
             /\ link_data[i].URL # <<>>
             /\ \A j \in 1..Len(link_data) : link_data[j].URL = link_data[i].URL => j = i
       /\ (pc = "report" \/ summary # <<>>) =>
             {link_data[i].URL : i \in 1..Len(link_data)} = HttpHrefs

C15_Witness ==
    /\ script = "url" /\ summary # <<>> /\ Len(page) = 3
    /\ page[1] = page[3] /\ page[1].href = <<"http", "://", "a">>
    /\ page[2].href = <<"mailto:", "x">>
    /\ Len(link_data) = 1 /\ link_data[1].URL = <<"http", "://", "a">>

\* ---------------------------------------------------------------- C16
\* C16: an option's row is Pass exactly when the option was found, at least
\* one tile was rendered and every tile carried the option's symbol; a row
\* that is Fail for one of these three causes names that cause in its reason
\* (an iteration cut short by an exception is Fail as well); and every option
\* read gets its iteration, also after a failed one.
C16_PassIffAllChecks ==
    script = "currency" =>
       /\ Len(seen) = Len(results)
       /\ \A i \in 1..Len(results) :
             LET r == results[i]
                 o == seen[i]
             IN /\ r.Status = "Pass" <=>
                      ~ o.fault /\ o.found /\ o.rendered /\ o.all_match
                /\ r.Status # "Pass" => r.Status = "Fail"
                /\ ~ o.fault /\ ~ o.found =>
                      r.Reason = "Currency option not found in dropdown"
                /\ ~ o.fault /\ o.found /\ ~ o.rendered =>
                      r.Reason = "No property tiles found"
                /\ ~ o.fault /\ o.found /\ o.rendered /\ ~ o.all_match =>
                      r.Reason = "Currency symbol not found in property tiles"
       /\ (ret # <<>> /\ Len(currency_options) > 0) =>
             /\ ret[1] = results
             /\ Len(results) = Len(page)

C16_Witness ==
    /\ script = "currency" /\ ret # <<>> /\ Len(page) = 2 /\ Len(ret[1]) = 2
    /\ ret[1][1].Reason = "Currency symbol not found in property tiles"
    /\ seen[1].rendered /\ ~ seen[1].all_match
    /\ ret[1][2].Status = "Pass" /\ seen[2].all_match

\* ---------------------------------------------------------------- C17
\* C17: the element clicked in an option's iteration is the element of that
\* option, also when two options carry the same data-currency-country.
\* (Stated for the clicks on an element that carried the option's country
\* when the options were read.)
C17_ClickedOwnOption ==
    script = "currency" =>
       \A k \in 1..Len(clicks) :
          page[clicks[k].option].country = page[clicks[k].iteration].country
             => clicks[k].option = clicks[k].iteration

\* ---------------------------------------------------------------- C18
\* C18: with a selector that each click toggles and a selected option closes,
\* the selector is open whenever an option is clicked, in the first iteration
\* too.
C18_OpenAtOptionClick ==
    script = "currency" => \A k \in 1..Len(clicks) : clicks[k].open

\* ---------------------------------------------------------------- C19
\* C19: when check_all_h1_tags returns Pass its list of H1 texts is not empty,
\* so main() never writes Pass with a total of 0 and a "No H1 tags found" row.
C19_PassHasH1Texts ==
    script = "h1" =>
       /\ (ret # <<>> /\ ret[1].status = "Pass") => ret[1].h1_texts # <<>>
       /\ summary # <<>> =>
             ~ (/\ summary[1].Result = "Pass"
                /\ summary[1].TotalH1TagsFound = 0
                /\ summary[1].H1Tags = <<"No H1 tags found">>)

====
